---- MODULE Spec2Model ----
(***************************************************************************)
(* Model of redman (src/src/lib.rs): the release pool kept by              *)
(* Database::store_data, the variant selection it applies to every         *)
(* torrent group, and the download loop of add_new_torrents_for_download.  *)
(*                                                                         *)
(*   Spec        the Fetch pipeline: store_data, one statement at a time   *)
(*   SpecSelect  the variant selection of store_data as a pure function    *)
(*   SpecPlan    the candidates of a Watch: the two filters on the pool    *)
(*               snapshot, then the weight groups, shuffled and ordered    *)
(*   SpecWatch   the selection of the torrents to download and the         *)
(*               download loop: filter_freeload_torrents,                  *)
(*               download_torrent, write_torrent and the hand-over to      *)
(*               transmission-remote                                       *)
(*   SpecPayload store_data on a whole payload (transform_groups, then the *)
(*               for loop over the groups it returned) and get_stats       *)
(***************************************************************************)
EXTENDS Integers, Sequences, FiniteSets, TLC

VARIABLES
    \* ---- the pool database (the two tables of Database::new)
    torrents,       \* table torrents: a set of rows
    fetches,        \* table fetches: a set of rows
    clock,          \* CURRENT_TIMESTAMP, in seconds
    \* ---- one call of store_data
    pc,             \* "idle" | "loop" | "done" | "failed" | "panicked"
    cur,            \* the arguments of the call: payload kind, id, name, weight
    todo,           \* groups of the payload the for loop has still to visit
    stored_count,   \* the local stored_count
    torrent,        \* the local torrent = torrents.first(): <<>> or <<t>>
    survivors,      \* how many candidates of the group visited last passed the filter
    \* ---- store_data on a whole payload (SpecPayload)
    payload,        \* the argument group_data
    groups,         \* the local groups: what the for loop has still to visit
    stats,          \* what the last get_stats returned
    \* ---- the variant selection on its own (SpecSelect)
    group,          \* a transformed group: Vec<Torrent>
    picked,         \* index in group of the selected torrent, 0 for none
    selected,       \* whether the selection has run
    \* ---- add_new_torrents_for_download up to line 474 (SpecPlan)
    ppc,            \* "library" | "dir" | "group" | "planned" | "failed"
    ts,             \* the Vec<Torrent> handed from one stage to the next
    plex_albums,    \* the local plex_albums of filter_torrents_not_in_plex_library
    entries,        \* what fs::read_dir gave filter_torrents_not_in_torrent_dir
    \* ---- add_new_torrents_for_download from line 476 on (SpecWatch)
    wpc,            \* "pool" | "select" | "next" | "fallback" | "retry" | "write" | "body" |
                    \* "submit" | "ok" | "err"
    num_torrents,   \* the argument num_torrents
    freeload_only,  \* the argument freeload_only
    queue,          \* the local torrents: the candidates, then the selection the
                    \* for loop walks; ids, in order
    result,         \* the local result of filter_freeload_torrents
    probe_i,        \* the local i of filter_freeload_torrents
    probes,         \* what the tracker answered to the probes of
                    \* filter_freeload_torrents while it runs: <<id, is_freeload>>
    idx,            \* index in queue of the item of the current iteration
    use_fl,         \* the argument use_fl
    reqs,           \* the download requests issued for the item: usetoken and outcome
    resp,           \* the response handed to write_torrent: <<>> or <<r>>
    path,           \* the local path of write_torrent once the file is created: <<>> or <<p>>
    dir,            \* torrent_dir: a set of files, each a name and a content
    dir0,           \* torrent_dir as it was when the iteration began
    sub,            \* how the hand-over of the item to transmission-remote went
    werr,           \* the error the call returns, "none" while there is none
    called,         \* whether the call has sent a request to the tracker API
    slept           \* whether 150 ms were slept since the last tracker API call

fetchVars  == <<torrents, fetches, clock, pc, cur, todo, stored_count, torrent, survivors>>
selectVars == <<group, picked, selected>>
watchVars  == <<wpc, num_torrents, freeload_only, queue, result, probe_i, probes, idx, use_fl,
                reqs, resp, path, dir, dir0, sub, werr, called, slept>>
planVars   == <<ppc, ts, plex_albums, entries>>
payloadVars == <<payload, groups, stats>>
vars == <<fetchVars, selectVars, planVars, watchVars, payloadVars>>

\* The two tables, and the rest of fetchVars
storeVars == <<torrents, fetches>>
callVars  == <<clock, pc, cur, todo, stored_count, torrent, survivors>>

----------------------------------------------------------------------------
(* Bounds and input domains *)

MaxTorrents == 3        \* candidates of one group (SpecSelect)
MaxGroups == 2          \* groups of one payload
MaxClock == 1           \* seconds the clock may advance
MaxQueue == 2           \* torrents selected for download in one Watch
MaxPool == 3            \* torrents of the pool snapshot of one Watch

TorrentIds   == {1, 2}
SourceIds    == {7}
Medias       == {"CD", "WEB", "Vinyl"}
Formats      == {"MP3", "FLAC"}
Encodings    == {"V0 (VBR)", "320", "Lossless"}
ReleaseTypes == {1, 5}
Weights      == {10, 20}
GroupNames   == {"Abbey Road"}
ArtistNames  == {"The Beatles"}
SourceNames  == {"The Beatles", "The&#32;Beatles"}
Kinds        == {"Artist", "Collage"}

\* (media, format, encoding) of a candidate
Classes == Medias \X Formats \X Encodings

\* The classes of the candidates of Spec: two that pass the filter and one that
\* fails it for each of media, format and encoding
FetchClasses ==
    {<<"CD", "MP3", "V0 (VBR)">>, <<"WEB", "MP3", "V0 (VBR)">>,
     <<"Vinyl", "MP3", "V0 (VBR)">>, <<"CD", "FLAC", "V0 (VBR)">>,
     <<"CD", "MP3", "Lossless">>}

\* struct TorrentApi, with the fields the selection never reads held fixed
TorrentApi(id, class) ==
    [torrent_id |-> id, media |-> class[1], format |-> class[2], encoding |-> class[3],
     file_count |-> 12, size |-> 1000]

\* Sequences over S of length 0..n
SeqsUpTo(S, n) == UNION {[1..k -> S] : k \in 0..n}

\* The elements of a sequence
Range(s) == {s[k] : k \in 1..Len(s)}

\* A torrent group of a payload after deserialization (TorrentGroupArtist /
\* TorrentGroupCollage with well-formed numbers)
ApiGroups(candidateLists) ==
    [name : GroupNames, artists : ArtistNames, year : {1969},
     release_type : ReleaseTypes, torrents : candidateLists]

\* The groups of the payloads of Spec: no candidate, one, or two with different ids
FetchGroups ==
    ApiGroups({<<>>}
        \cup {<<TorrentApi(i, c)>> : i \in TorrentIds, c \in FetchClasses}
        \cup UNION {{<<TorrentApi(i, c), TorrentApi(j, d)>> :
                         j \in TorrentIds \ {i}, c \in FetchClasses, d \in FetchClasses} :
                     i \in TorrentIds})

----------------------------------------------------------------------------
(* transform_groups *)

\* html_escape::decode_html_entities on the names of the model
decode_html_entities(s) ==
    CASE s = "R&amp;B" -> "R&B"
      [] s = "The&#32;Beatles" -> "The Beatles"
      [] OTHER -> s

\* One group of the payload to Vec<Torrent>
transform_group(kind, src_name, g, weight) ==
    [i \in 1..Len(g.torrents) |->
        [id           |-> g.torrents[i].torrent_id,
         album_name   |-> IF kind = "Artist" THEN decode_html_entities(g.name) ELSE g.name,
         artist_names |-> IF kind = "Artist" THEN decode_html_entities(src_name) ELSE g.artists,
         year         |-> g.year,
         release_type |-> g.release_type,
         media        |-> g.torrents[i].media,
         format       |-> g.torrents[i].format,
         encoding     |-> g.torrents[i].encoding,
         file_count   |-> g.torrents[i].file_count,
         weight       |-> weight,
         size         |-> g.torrents[i].size]]

----------------------------------------------------------------------------
(* The variant selection of store_data *)

\* The two .filter() closures
Qualifies(t) ==
    /\ t.release_type = 1
    /\ (t.media = "CD" \/ t.media = "WEB")
    /\ t.format = "MP3"
    /\ (t.encoding = "V0 (VBR)" \/ t.encoding = "320")

\* .iter().filter(..).filter(..).collect::<Vec<&Torrent>>(): the references kept,
\* a reference being the index of the element in g
RECURSIVE FilterRefs(_, _)
FilterRefs(g, i) ==
    IF i > Len(g) THEN <<>>
    ELSE IF Qualifies(g[i]) THEN <<i>> \o FilterRefs(g, i + 1)
    ELSE FilterRefs(g, i + 1)

\* SortKey with the keys of (WEB, V0) and (CD, 320) exchanged
SortKeyEncodingLast(t) ==
    CASE t.media = "CD"  /\ t.encoding = "V0 (VBR)" -> 0
      [] t.media = "WEB" /\ t.encoding = "V0 (VBR)" -> 2
      [] t.media = "CD"  /\ t.encoding = "320"      -> 1
      [] t.media = "WEB" /\ t.encoding = "320"      -> 3
      [] OTHER -> 99

\* The closure of sort_by_key
SortKey(t) ==
    CASE t.media = "CD"  /\ t.encoding = "V0 (VBR)" -> 0
      [] t.media = "WEB" /\ t.encoding = "V0 (VBR)" -> 1
      [] t.media = "CD"  /\ t.encoding = "320"      -> 2
      [] t.media = "WEB" /\ t.encoding = "320"      -> 3
      [] OTHER -> 99

\* InsertByKey of a sort that is not stable: r goes before the elements of equal key
RECURSIVE InsertByKeyUnstable(_, _, _)
InsertByKeyUnstable(g, s, r) ==
    IF s = <<>> THEN <<r>>
    ELSE IF SortKey(g[r]) <= SortKey(g[Head(s)]) THEN <<r>> \o s
    ELSE <<Head(s)>> \o InsertByKeyUnstable(g, Tail(s), r)

\* Insert reference r into the sorted s, after every element whose key is not larger
RECURSIVE InsertByKey(_, _, _)
InsertByKey(g, s, r) ==
    IF s = <<>> THEN <<r>>
    ELSE IF SortKey(g[r]) < SortKey(g[Head(s)]) THEN <<r>> \o s
    ELSE <<Head(s)>> \o InsertByKey(g, Tail(s), r)

\* slice::sort_by_key: a stable sort
RECURSIVE SortByKey(_, _)
SortByKey(g, refs) ==
    IF refs = <<>> THEN <<>>
    ELSE InsertByKey(g, SortByKey(g, SubSeq(refs, 1, Len(refs) - 1)), refs[Len(refs)])

\* torrents.first(), as the index in g of the torrent selected, 0 for None
SelectRef(g) ==
    LET sorted == SortByKey(g, FilterRefs(g, 1))
    IN  IF sorted = <<>> THEN 0 ELSE sorted[1]

\* torrents.first(), as an Option: <<>> or <<t>>
SelectTorrent(g) ==
    IF SelectRef(g) = 0 THEN <<>> ELSE <<g[SelectRef(g)]>>

----------------------------------------------------------------------------
(* The tables *)

\* The row INSERT OR REPLACE INTO torrents writes for t: created_at takes its default
TorrentRow(t, now) ==
    [id |-> t.id, album_name |-> t.album_name, artist_names |-> t.artist_names,
     year |-> t.year, release_type |-> t.release_type, media |-> t.media,
     format |-> t.format, encoding |-> t.encoding, file_count |-> t.file_count,
     weight |-> t.weight, size_bytes |-> t.size, created_at |-> now]

\* A plain insert that keeps the row already stored under the id
InsertKeepingOld(table, row) ==
    table \cup {row}

\* InsertOrReplace of an upsert that updates every column but weight
UpsertKeepingWeight(table, row) ==
    {r \in table : r.id # row.id}
        \cup {[row EXCEPT !.weight = old.weight] : old \in {r \in table : r.id = row.id}}
        \cup {r \in {row} : \A old \in table : old.id # row.id}

\* INSERT OR REPLACE on the primary key id: the conflicting row is deleted, the new
\* one inserted
InsertOrReplace(table, row) ==
    {r \in table : r.id # row.id} \cup {row}

\* InsertFetch of an INSERT OR REPLACE: the record of the same (id, type) is replaced
InsertFetchOrReplace(table, row) ==
    {r \in table : ~(r.id = row.id /\ r.type = row.type)} \cup {row}

\* INSERT INTO fetches ... ON CONFLICT(id, type) DO NOTHING
InsertFetch(table, row) ==
    IF \E r \in table : r.id = row.id /\ r.type = row.type THEN table
    ELSE table \cup {row}

\* The type column of fetches
FetchType(kind) == IF kind = "Artist" THEN 0 ELSE 1

----------------------------------------------------------------------------
(* Database::store_data *)

\* What the filter, the sort and first() of one loop iteration can yield for the
\* groups of a payload: <<torrent, number of candidates that passed the filter>>
Selections ==
    [kind \in Kinds, name \in SourceNames, weight \in Weights |->
        {LET g == transform_group(kind, name, ag, weight)
         IN  <<SelectTorrent(g), Len(FilterRefs(g, 1))>> : ag \in FetchGroups}]

NoCall == [kind |-> "Artist", id |-> 0, name |-> "", weight |-> 0]

\* CURRENT_TIMESTAMP moves on
Tick ==
    /\ clock < MaxClock
    /\ clock' = clock + 1
    /\ UNCHANGED <<torrents, fetches, pc, cur, todo, stored_count, torrent, survivors>>

\* BeginStore of a store_data that returns Ok(0) at once when the source is recorded
BeginStoreOncePerSource ==
    /\ pc \in {"idle", "done", "failed", "panicked"}
    /\ \E kind \in Kinds, id \in SourceIds, name \in SourceNames :
        LET row == [id |-> id, type |-> FetchType(kind), name |-> name, created_at |-> clock]
        IN  /\ fetches' = InsertFetch(fetches, row)
            /\ IF InsertFetch(fetches, row) = fetches
               THEN pc' = "done" /\ todo' = 0 /\ cur' = NoCall
               ELSE \E weight \in Weights, n \in 0..MaxGroups :
                       /\ pc' = "loop"
                       /\ todo' = n
                       /\ cur' = [kind |-> kind, id |-> id, name |-> name, weight |-> weight]
    /\ stored_count' = 0
    /\ torrent' = <<>>
    /\ survivors' = 0
    /\ UNCHANGED <<torrents, clock>>

\* store_data is called: the INSERT into fetches, then transform_groups. A collage
\* whose year or releaseType does not parse makes transform_groups panic.
BeginStore ==
    /\ pc \in {"idle", "done", "failed", "panicked"}
    /\ \E kind \in Kinds, id \in SourceIds, name \in SourceNames :
        /\ fetches' = InsertFetch(fetches,
               [id |-> id, type |-> FetchType(kind), name |-> name, created_at |-> clock])
        /\ \/ \E weight \in Weights, n \in 0..MaxGroups :
              /\ pc' = "loop"
              /\ todo' = n
              /\ cur' = [kind |-> kind, id |-> id, name |-> name, weight |-> weight]
           \/ \* a year or releaseType of the collage does not parse
              /\ kind = "Collage"
              /\ pc' = "panicked"
              /\ todo' = 0
              /\ cur' = NoCall
    /\ stored_count' = 0
    /\ torrent' = <<>>
    /\ survivors' = 0
    /\ UNCHANGED <<torrents, clock>>

\* The INSERT into fetches fails: the ? returns the error
BeginStoreFails ==
    /\ pc \in {"idle", "done", "failed", "panicked"}
    /\ pc' = "failed"
    /\ cur' = NoCall
    /\ todo' = 0
    /\ stored_count' = 0
    /\ torrent' = <<>>
    /\ survivors' = 0
    /\ UNCHANGED <<torrents, fetches, clock>>

\* One iteration of the for loop whose INSERT OR REPLACE, if any, succeeds
StoreGroup ==
    /\ pc = "loop"
    /\ todo > 0
    /\ \E sel \in Selections[cur.kind, cur.name, cur.weight] :
        /\ torrent' = sel[1]
        /\ survivors' = sel[2]
        /\ IF sel[1] # <<>>
           THEN /\ torrents' = InsertOrReplace(torrents, TorrentRow(sel[1][1], clock))
                /\ stored_count' = stored_count + 1
           ELSE UNCHANGED <<torrents, stored_count>>
    /\ todo' = todo - 1
    /\ UNCHANGED <<fetches, clock, pc, cur>>

\* StoreGroupFails of a loop that takes a group without survivors for an error
StoreGroupFailsOnNone ==
    /\ pc = "loop"
    /\ todo > 0
    /\ \E n \in {sel[2] : sel \in Selections[cur.kind, cur.name, cur.weight]} :
        survivors' = n
    /\ pc' = "failed"
    /\ cur' = NoCall
    /\ todo' = 0
    /\ torrent' = <<>>
    /\ UNCHANGED <<torrents, fetches, clock, stored_count>>

\* StoreGroupFails of a store_data that undoes the writes of this second on an error
StoreGroupFailsRollingBack ==
    /\ pc = "loop"
    /\ todo > 0
    /\ \E n \in {sel[2] : sel \in {s \in Selections[cur.kind, cur.name, cur.weight] :
                                         s[1] # <<>>}} :
        survivors' = n
    /\ torrents' = {r \in torrents : r.created_at # clock}
    /\ pc' = "failed"
    /\ cur' = NoCall
    /\ todo' = 0
    /\ torrent' = <<>>
    /\ UNCHANGED <<fetches, clock, stored_count>>

\* One iteration of the for loop whose INSERT OR REPLACE fails: the ? returns the
\* error from inside the loop; stored_count keeps the writes the call had made and
\* survivors what the filter left of the group
StoreGroupFails ==
    /\ pc = "loop"
    /\ todo > 0
    /\ \E n \in {sel[2] : sel \in {s \in Selections[cur.kind, cur.name, cur.weight] :
                                         s[1] # <<>>}} :
        survivors' = n
    /\ pc' = "failed"
    /\ cur' = NoCall
    /\ todo' = 0
    /\ torrent' = <<>>
    /\ UNCHANGED <<torrents, fetches, clock, stored_count>>

\* The loop is over: Ok(stored_count), and the locals are dropped
FinishStore ==
    /\ pc = "loop"
    /\ todo = 0
    /\ pc' = "done"
    /\ cur' = NoCall
    /\ torrent' = <<>>
    /\ survivors' = 0
    /\ UNCHANGED <<torrents, fetches, clock, todo, stored_count>>

FetchInit ==
    /\ torrents = {}
    /\ fetches = {}
    /\ clock = 0
    /\ pc = "idle"
    /\ cur = NoCall
    /\ todo = 0
    /\ stored_count = 0
    /\ torrent = <<>>
    /\ survivors = 0

SelectIdle ==
    /\ group = <<>>
    /\ picked = 0
    /\ selected = FALSE

PlanIdle ==
    /\ ppc = "planned"
    /\ ts = <<>>
    /\ plex_albums = {}
    /\ entries = {}

WatchIdle ==
    /\ wpc = "ok"
    /\ num_torrents = 0
    /\ freeload_only = FALSE
    /\ queue = <<>>
    /\ result = <<>>
    /\ probe_i = 0
    /\ probes = <<>>
    /\ called = FALSE
    /\ idx = 1
    /\ use_fl = FALSE
    /\ reqs = <<>>
    /\ resp = <<>>
    /\ path = <<>>
    /\ dir = {}
    /\ dir0 = {}
    /\ sub = "none"
    /\ werr = "none"
    /\ slept = FALSE

\* No payload at hand
NoPayload == [kind |-> "Artist", id |-> 0, name |-> "", torrent_groups |-> <<>>]

\* get_stats was not called
NoStats == [status |-> "none"]

PayloadIdle ==
    /\ payload = NoPayload
    /\ groups = <<>>
    /\ stats = NoStats

Init == FetchInit /\ SelectIdle /\ PlanIdle /\ WatchIdle /\ PayloadIdle

Next ==
    \/ Tick /\ UNCHANGED <<selectVars, planVars, watchVars, payloadVars>>
    \/ BeginStore /\ UNCHANGED <<selectVars, planVars, watchVars, payloadVars>>
    \/ BeginStoreFails /\ UNCHANGED <<selectVars, planVars, watchVars, payloadVars>>
    \/ StoreGroup /\ UNCHANGED <<selectVars, planVars, watchVars, payloadVars>>
    \/ StoreGroupFails /\ UNCHANGED <<selectVars, planVars, watchVars, payloadVars>>
    \/ FinishStore /\ UNCHANGED <<selectVars, planVars, watchVars, payloadVars>>

Spec == Init /\ [][Next]_vars

----------------------------------------------------------------------------
(* The variant selection as a pure function *)

\* The groups transform_groups can hand to the selection: up to MaxTorrents
\* candidates in any order of media, format and encoding, with the tracker's
\* distinct ids
SelectGroups ==
    {transform_group("Collage", "The Beatles", ag, 10) :
        ag \in ApiGroups({[i \in 1..Len(cs) |-> TorrentApi(i, cs[i])] :
                             cs \in SeqsUpTo(Classes, MaxTorrents)})}

SelectInit ==
    /\ group \in SelectGroups
    /\ picked = 0
    /\ selected = FALSE

Select ==
    /\ ~selected
    /\ picked' = SelectRef(group)
    /\ selected' = TRUE
    /\ UNCHANGED group

InitSelect == FetchInit /\ SelectInit /\ PlanIdle /\ WatchIdle /\ PayloadIdle

NextSelect == Select /\ UNCHANGED <<fetchVars, planVars, watchVars, payloadVars>>

SpecSelect == InitSelect /\ [][NextSelect]_vars

----------------------------------------------------------------------------
(* The candidates of a Watch: the two filters on the pool, the weight groups *)

\* A text is a sequence of characters, each a string of its own; a character
\* outside ASCII is written as its code point.
Upper  == <<"A", "B", "C", "D", "E", "F", "G", "H", "I", "J", "K", "L", "M",
            "N", "O", "P", "Q", "R", "S", "T", "U", "V", "W", "X", "Y", "Z">>
Lower  == <<"a", "b", "c", "d", "e", "f", "g", "h", "i", "j", "k", "l", "m",
            "n", "o", "p", "q", "r", "s", "t", "u", "v", "w", "x", "y", "z">>
Digits == <<"0", "1", "2", "3", "4", "5", "6", "7", "8", "9">>

\* The (album_name, artist_names) of the torrents of the pool
AbbeyRoad  == <<"A", "b", "b", "e", "y", " ", "R", "o", "a", "d">>
TheBeatles == <<"T", "h", "e", " ", "B", "e", "a", "t", "l", "e", "s">>
Muzai      == <<"U+7121", "U+7F6A">>
ShiinaRingo == <<"U+690E", "U+540D", "U+6797", "U+6A8E">>
PoolNames ==
    {[album_name |-> AbbeyRoad, artist_names |-> TheBeatles],
     [album_name |-> Muzai, artist_names |-> ShiinaRingo]}

\* struct Album: the rows get_plex_library_albums can return
LibraryAlbums ==
    {[name |-> <<"a", "b", "b", "e", "y", "-", "r", "o", "a", "d", "!">>,
      artists |-> <<"T", "H", "E", " ", "B", "E", "A", "T", "L", "E", "S">>],
     [name |-> AbbeyRoad, artists |-> <<"T", "h", "e", " ", "K", "i", "n", "k", "s">>],
     [name |-> <<"H", "e", "l", "p", "!">>, artists |-> TheBeatles],
     [name |-> <<"U+98A8">>, artists |-> <<"U+4E45", "U+77F3", "U+8B72">>]}

\* The libraries of the model: up to two albums
Libraries == {lib \in SUBSET LibraryAlbums : Cardinality(lib) <= 2}

\* The id of the k-th row of the pool: SELECT ... FROM torrents walks the table by
\* its INTEGER PRIMARY KEY
PoolId(k) ==
    CASE k = 1 -> 2
      [] k = 2 -> 12
      [] k = 3 -> 12345
      [] OTHER -> 12345 + k

\* struct Torrent, with the fields a Watch reads; what get_pool_torrents returns
Pools ==
    {[k \in 1..Len(c) |->
         [id |-> PoolId(k), album_name |-> c[k][1].album_name,
          artist_names |-> c[k][1].artist_names, weight |-> c[k][2]]] :
        c \in SeqsUpTo(PoolNames \X Weights, MaxPool)}

\* The entries of torrent_dir: a name and whether the path is a file
DotTorrent == <<".", "t", "o", "r", "r", "e", "n", "t">>
DirEntries ==
    {[name |-> <<"f", "o", "o", "-", "1", "2", "3", "4", "5">> \o DotTorrent, is_file |-> TRUE],
     [name |-> <<"f", "o", "o">> \o DotTorrent, is_file |-> TRUE],
     [name |-> <<"a", "-", "1", "2">> \o DotTorrent, is_file |-> TRUE],
     [name |-> <<"0", "0", "2">> \o DotTorrent, is_file |-> TRUE],
     [name |-> <<"4", "2", "9", "4", "9", "6", "7", "2", "9", "8">> \o DotTorrent, is_file |-> TRUE],
     [name |-> <<"x", "-", "2">>, is_file |-> FALSE],
     [name |-> <<"a", ".", "2">>, is_file |-> TRUE]}

\* The directories of the model: up to two entries
Dirs == {d \in SUBSET DirEntries : Cardinality(d) <= 2}

\* char::is_ascii_alphanumeric, char::is_ascii_digit
is_ascii_alphanumeric(c) == c \in Range(Upper) \cup Range(Lower) \cup Range(Digits)
is_ascii_digit(c) == c \in Range(Digits)

\* str::to_lowercase
to_lowercase(s) ==
    [k \in 1..Len(s) |->
        IF s[k] \in Range(Upper)
        THEN Lower[CHOOSE j \in 1..Len(Upper) : Upper[j] = s[k]]
        ELSE s[k]]

\* The closure transform of filter_torrents_not_in_plex_library
transform(s) == to_lowercase(SelectSeq(s, is_ascii_alphanumeric))

\* filter_torrents_not_in_plex_library, with plex_albums read
filter_torrents_not_in_plex_library(torrents_in, albums) ==
    LET keep(t) == ~\E a \in albums :
                       /\ transform(a.artists) = transform(t.artist_names)
                       /\ transform(a.name) = transform(t.album_name)
    IN  SelectSeq(torrents_in, keep)

\* The position of the last "." of a name, 0 if there is none
RECURSIVE LastDot(_)
LastDot(name) ==
    IF name = <<>> THEN 0
    ELSE IF name[Len(name)] = "." THEN Len(name)
    ELSE LastDot(SubSeq(name, 1, Len(name) - 1))

\* Path::file_stem: the name up to its last ".", the whole name when it has no "."
\* or only a leading one
file_stem(name) ==
    IF LastDot(name) <= 1 THEN name ELSE SubSeq(name, 1, LastDot(name) - 1)

\* .chars().rev().take_while(is_ascii_digit) ... .rev(): the digits the stem ends in
RECURSIVE TrailingDigits(_)
TrailingDigits(s) ==
    IF s = <<>> THEN <<>>
    ELSE IF ~is_ascii_digit(s[Len(s)]) THEN <<>>
    ELSE Append(TrailingDigits(SubSeq(s, 1, Len(s) - 1)), s[Len(s)])

\* A decimal numeral without its leading zeros ("0" for zero)
RECURSIVE StripZeros(_)
StripZeros(d) ==
    IF Len(d) > 1 /\ d[1] = "0" THEN StripZeros(Tail(d)) ELSE d

\* The value of a digit
DigitValue(c) == (CHOOSE k \in 1..Len(Digits) : Digits[k] = c) - 1

\* Whether numeral a is larger than numeral b of the same length
RECURSIVE NumeralGreater(_, _)
NumeralGreater(a, b) ==
    IF a = <<>> THEN FALSE
    ELSE IF DigitValue(a[1]) # DigitValue(b[1]) THEN DigitValue(a[1]) > DigitValue(b[1])
    ELSE NumeralGreater(Tail(a), Tail(b))

\* u32::MAX
U32Max == <<"4", "2", "9", "4", "9", "6", "7", "2", "9", "5">>

\* ParseU32 of a filter that compares the digits as text
ParseU32AsText(d) ==
    IF d = <<>> THEN <<>> ELSE <<d>>

\* str::parse::<u32>().ok() on a run of digits: <<>>, or the number, which is
\* written as its numeral without leading zeros
ParseU32(d) ==
    IF d = <<>> THEN <<>>
    ELSE IF Len(StripZeros(d)) > Len(U32Max) THEN <<>>
    ELSE IF Len(StripZeros(d)) = Len(U32Max) /\ NumeralGreater(StripZeros(d), U32Max) THEN <<>>
    ELSE <<StripZeros(d)>>

\* The numeral of a u32
RECURSIVE Numeral(_)
Numeral(n) ==
    IF n < 10 THEN <<Digits[n + 1]>>
    ELSE Append(Numeral(n \div 10), Digits[(n % 10) + 1])

\* The HashSet dir_torrent_ids
dir_torrent_ids(es) ==
    {ParseU32(TrailingDigits(file_stem(e.name)))[1] :
        e \in {f \in es : f.is_file /\ ParseU32(TrailingDigits(file_stem(f.name))) # <<>>}}

\* filter_torrents_not_in_torrent_dir, with the directory read
filter_torrents_not_in_torrent_dir(torrents_in, es) ==
    LET keep(t) == Numeral(t.id) \notin dir_torrent_ids(es)
    IN  SelectSeq(torrents_in, keep)

\* itertools chunk_by(|t| t.weight): the runs of consecutive torrents of one weight
RECURSIVE ChunkBy(_)
ChunkBy(s) ==
    IF s = <<>> THEN <<>>
    ELSE LET rest == ChunkBy(SubSeq(s, 1, Len(s) - 1))
             t == s[Len(s)]
         IN  IF rest # <<>> /\ rest[Len(rest)][1] = t.weight
             THEN [rest EXCEPT ![Len(rest)] = <<t.weight, Append(rest[Len(rest)][2], t)>>]
             ELSE Append(rest, <<t.weight, <<t>>>>)

\* Insert group c into the sorted gs, after every group whose weight is not larger
RECURSIVE InsertGroup(_, _)
InsertGroup(gs, c) ==
    IF gs = <<>> THEN <<c>>
    ELSE IF c[1] < gs[1][1] THEN <<c>> \o gs
    ELSE <<gs[1]>> \o InsertGroup(Tail(gs), c)

\* groups.sort_by_key(|t| t.0): a stable sort
RECURSIVE SortGroups(_)
SortGroups(gs) ==
    IF gs = <<>> THEN <<>>
    ELSE InsertGroup(SortGroups(SubSeq(gs, 1, Len(gs) - 1)), gs[Len(gs)])

\* groups.reverse()
Reverse(s) == [k \in 1..Len(s) |-> s[Len(s) + 1 - k]]

\* OrderGroups of a Watch that leaves the groups in ascending order
OrderGroupsAscending(gs) == SortGroups(gs)

\* Lines 472-473: the groups by weight, the largest first
OrderGroups(gs) == Reverse(SortGroups(gs))

\* shuffled.shuffle(&mut rand::rng()): every order of the group can come out
Shuffles(s) ==
    {[k \in 1..Len(s) |-> s[p[k]]] : p \in Permutations(1..Len(s))}

\* flat_map over the groups from the k-th on, each group in one of its orders
RECURSIVE FlatMaps(_, _)
FlatMaps(gs, k) ==
    IF k > Len(gs) THEN {<<>>}
    ELSE {a \o b : a \in Shuffles(gs[k][2]), b \in FlatMaps(gs, k + 1)}

\* Lines 462-474: what torrents can be after the chunks were shuffled, ordered and
\* concatenated
Concatenations(s) == FlatMaps(OrderGroups(ChunkBy(s)), 1)

\* filter_torrents_not_in_plex_library
FilterLibrary ==
    /\ ppc = "library"
    /\ \E lib \in Libraries :
        /\ plex_albums' = lib
        /\ ts' = filter_torrents_not_in_plex_library(ts, lib)
    /\ ppc' = "dir"
    /\ UNCHANGED entries

\* get_plex_library_albums fails: the ? of line 460 returns the error
FilterLibraryFails ==
    /\ ppc = "library"
    /\ ppc' = "failed"
    /\ ts' = <<>>
    /\ UNCHANGED <<plex_albums, entries>>

\* filter_torrents_not_in_torrent_dir
FilterDir ==
    /\ ppc = "dir"
    /\ \E d \in Dirs :
        /\ entries' = d
        /\ ts' = filter_torrents_not_in_torrent_dir(ts, d)
    /\ plex_albums' = {}
    /\ ppc' = "group"

\* fs::read_dir fails: the ? of line 460 returns the error
FilterDirFails ==
    /\ ppc = "dir"
    /\ ppc' = "failed"
    /\ ts' = <<>>
    /\ plex_albums' = {}
    /\ UNCHANGED entries

\* Lines 462-474
GroupAndShuffle ==
    /\ ppc = "group"
    /\ ts' \in Concatenations(ts)
    /\ entries' = {}
    /\ ppc' = "planned"
    /\ UNCHANGED plex_albums

\* get_pool_torrents has returned the rows of the pool
PlanInit ==
    /\ ppc = "library"
    /\ ts \in Pools
    /\ plex_albums = {}
    /\ entries = {}

InitPlan == FetchInit /\ SelectIdle /\ PlanInit /\ WatchIdle /\ PayloadIdle

NextPlan ==
    \/ FilterLibrary /\ UNCHANGED <<fetchVars, selectVars, watchVars, payloadVars>>
    \/ FilterLibraryFails /\ UNCHANGED <<fetchVars, selectVars, watchVars, payloadVars>>
    \/ FilterDir /\ UNCHANGED <<fetchVars, selectVars, watchVars, payloadVars>>
    \/ FilterDirFails /\ UNCHANGED <<fetchVars, selectVars, watchVars, payloadVars>>
    \/ GroupAndShuffle /\ UNCHANGED <<fetchVars, selectVars, watchVars, payloadVars>>

SpecPlan == InitPlan /\ [][NextPlan]_vars

----------------------------------------------------------------------------
(* store_data on a whole payload: transform_groups, then the for loop; get_stats *)

\* Numbers as the tracker writes them into a collage
Year1969 == <<"1", "9", "6", "9">>
TooLarge == <<"4", "2", "9", "4", "9", "6", "7", "2", "9", "6">>

\* (year, releaseType) of a group of a collage: well-formed twice, then an empty
\* year, a year beyond u32, a release type that is no number
CollageNumbers ==
    {<<Year1969, <<"1">>>>, <<Year1969, <<"+", "1">>>>, <<<<>>, <<"1">>>>,
     <<TooLarge, <<"1">>>>, <<Year1969, <<"E", "P">>>>}

\* (name, musicInfo.artists) of a group of a collage, without and with HTML entities
CollageNames ==
    {<<"Abbey Road", <<"The Beatles">>>>,
     <<"R&amp;B", <<"The&#32;Beatles", "R&amp;B">>>>}

\* The candidates of a group of a payload: none, or one that passes the filter
PayloadTorrents ==
    {<<>>, <<TorrentApi(1, <<"CD", "MP3", "V0 (VBR)">>)>>,
     <<TorrentApi(2, <<"WEB", "MP3", "320">>)>>}

\* struct TorrentGroupCollage
CollageGroups ==
    {[name |-> nm[1], year |-> nb[1], release_type |-> nb[2], artists |-> nm[2],
      torrents |-> t] : nm \in CollageNames, nb \in CollageNumbers, t \in PayloadTorrents}

\* struct TorrentGroupArtist
ArtistGroups ==
    [name : {"Abbey Road", "R&amp;B"}, year : {1969}, release_type : {1},
     torrents : PayloadTorrents]

\* enum GroupData
Payloads ==
    {[kind |-> "Collage", id |-> 7, name |-> "Best of 1969", torrent_groups |-> gs] :
        gs \in SeqsUpTo(CollageGroups, MaxGroups)}
    \cup {[kind |-> "Artist", id |-> 7, name |-> n, torrent_groups |-> gs] :
        n \in SourceNames, gs \in SeqsUpTo(ArtistGroups, MaxGroups)}

\* The number a numeral without leading zeros stands for
RECURSIVE NumeralValue(_)
NumeralValue(d) ==
    IF d = <<>> THEN 0
    ELSE 10 * NumeralValue(SubSeq(d, 1, Len(d) - 1)) + DigitValue(d[Len(d)])

\* str::parse::<u32>() on a whole string: an optional "+", then digits only and at
\* least one; <<>> for Err, <<numeral>> for Ok
ParseStrU32(s) ==
    LET d == IF s # <<>> /\ s[1] = "+" THEN Tail(s) ELSE s
    IN  IF \E k \in 1..Len(d) : ~is_ascii_digit(d[k]) THEN <<>> ELSE ParseU32(d)

\* .collect::<Vec<_>>().join(", ")
RECURSIVE Join(_)
Join(names) ==
    IF names = <<>> THEN ""
    ELSE IF Len(names) = 1 THEN names[1]
    ELSE names[1] \o ", " \o Join(Tail(names))

\* Whether the closure that builds the Torrents of collage group g panics: the two
\* parse().unwrap() are evaluated once for every torrent of the group
Panics(g) ==
    /\ g.torrents # <<>>
    /\ ParseStrU32(g.year) = <<>> \/ ParseStrU32(g.release_type) = <<>>

\* A collage group as the closure reads it: the artists joined, the numbers parsed
\* (they are not read when the group has no torrent)
ParsedGroup(g) ==
    [name         |-> g.name,
     artists      |-> Join(g.artists),
     year         |-> IF g.torrents = <<>> THEN 0 ELSE NumeralValue(ParseStrU32(g.year)[1]),
     release_type |-> IF g.torrents = <<>> THEN 0
                      ELSE NumeralValue(ParseStrU32(g.release_type)[1]),
     torrents     |-> g.torrents]

\* transform_groups: <<>> when it panics, <<the Vec<Vec<Torrent>>>> when it returns
transform_groups(p, weight) ==
    IF p.kind = "Collage"
    THEN IF \E k \in 1..Len(p.torrent_groups) : Panics(p.torrent_groups[k]) THEN <<>>
         ELSE <<[k \in 1..Len(p.torrent_groups) |->
                    transform_group("Collage", p.name, ParsedGroup(p.torrent_groups[k]),
                                    weight)]>>
    ELSE <<[k \in 1..Len(p.torrent_groups) |->
               transform_group("Artist", p.name, p.torrent_groups[k], weight)]>>

\* store_data is called on payload: the INSERT into fetches, then transform_groups
StorePayloadBegin ==
    /\ pc = "idle"
    /\ \E weight \in Weights :
        LET r == transform_groups(payload, weight)
        IN  IF r = <<>>
            THEN pc' = "panicked" /\ groups' = <<>> /\ todo' = 0 /\ cur' = NoCall
            ELSE /\ pc' = "loop"
                 /\ groups' = r[1]
                 /\ todo' = Len(r[1])
                 /\ cur' = [kind |-> payload.kind, id |-> payload.id,
                            name |-> payload.name, weight |-> weight]
    /\ fetches' = InsertFetch(fetches,
           [id |-> payload.id, type |-> FetchType(payload.kind), name |-> payload.name,
            created_at |-> clock])
    /\ stored_count' = 0
    /\ torrent' = <<>>
    /\ survivors' = 0
    /\ UNCHANGED <<torrents, clock, payload, stats>>

\* The INSERT into fetches fails: the ? returns the error
StorePayloadBeginFails ==
    /\ pc = "idle"
    /\ pc' = "failed"
    /\ UNCHANGED <<torrents, fetches, clock, cur, todo, stored_count, torrent, survivors,
                   payload, groups, stats>>

\* One iteration of the for loop over groups whose INSERT OR REPLACE, if any, succeeds
StorePayloadGroup ==
    /\ pc = "loop"
    /\ groups # <<>>
    /\ torrent' = SelectTorrent(Head(groups))
    /\ survivors' = Len(FilterRefs(Head(groups), 1))
    /\ IF SelectTorrent(Head(groups)) # <<>>
       THEN /\ torrents' = InsertOrReplace(torrents,
                               TorrentRow(SelectTorrent(Head(groups))[1], clock))
            /\ stored_count' = stored_count + 1
       ELSE UNCHANGED <<torrents, stored_count>>
    /\ groups' = Tail(groups)
    /\ todo' = todo - 1
    /\ UNCHANGED <<fetches, clock, pc, cur, payload, stats>>

\* One iteration of the for loop over groups whose INSERT OR REPLACE fails
StorePayloadGroupFails ==
    /\ pc = "loop"
    /\ groups # <<>>
    /\ SelectTorrent(Head(groups)) # <<>>
    /\ survivors' = Len(FilterRefs(Head(groups), 1))
    /\ pc' = "failed"
    /\ cur' = NoCall
    /\ groups' = <<>>
    /\ todo' = 0
    /\ torrent' = <<>>
    /\ UNCHANGED <<torrents, fetches, clock, stored_count, payload, stats>>

\* The loop over groups is over: Ok(stored_count), and the locals are dropped
StorePayloadFinish ==
    /\ pc = "loop"
    /\ groups = <<>>
    /\ pc' = "done"
    /\ cur' = NoCall
    /\ torrent' = <<>>
    /\ survivors' = 0
    /\ UNCHANGED <<torrents, fetches, clock, todo, stored_count, payload, groups, stats>>

\* The orders in which a sort on the count, descending, can leave the groups ks of
\* table by column col: ORDER BY count DESC says nothing on groups of equal count
OrdersByCountDesc(table, ks, col) ==
    {o \in [1..Cardinality(ks) -> ks] :
        /\ \A a, b \in 1..Cardinality(ks) : a # b => o[a] # o[b]
        /\ \A a \in 1..(Cardinality(ks) - 1) :
               Cardinality({r \in table : r[col] = o[a]})
                   >= Cardinality({r \in table : r[col] = o[a + 1]})}

\* SELECT format, COUNT(*) ... GROUP BY col ORDER BY count DESC: the row lists
\* the statement can return
GroupCounts(table, col) ==
    {[k \in 1..Len(o) |->
         <<(CHOOSE r \in table : r[col] = o[k]).format,
           Cardinality({r \in table : r[col] = o[k]})>>] :
        o \in OrdersByCountDesc(table, {r[col] : r \in table}, col)}

\* FormatCounts of a statement that groups by media
FormatCountsByMedia(table) == GroupCounts(table, "media")

\* The statement of get_stats: GROUP BY format
FormatCounts(table) == GroupCounts(table, "format")

\* get_stats returns Ok
GetStats ==
    /\ pc \in {"done", "failed", "panicked"}
    /\ \E h \in FormatCounts(torrents) :
        stats' = [status          |-> "ok",
                  total_torrents  |-> Cardinality(torrents),
                  unique_artists  |-> Cardinality({r.artist_names : r \in torrents}),
                  unique_albums   |-> Cardinality({r.album_name : r \in torrents}),
                  format_counts   |-> h]
    /\ UNCHANGED <<fetchVars, payload, groups>>

\* One of the queries of get_stats fails: the ? returns the error
GetStatsFails ==
    /\ pc \in {"done", "failed", "panicked"}
    /\ stats' = [status |-> "err"]
    /\ UNCHANGED <<fetchVars, payload, groups>>

\* A payload fetched from the tracker, and an empty pool
PayloadInit ==
    /\ payload \in Payloads
    /\ groups = <<>>
    /\ stats = NoStats

InitPayload == FetchInit /\ SelectIdle /\ PlanIdle /\ WatchIdle /\ PayloadInit

NextPayload ==
    \/ StorePayloadBegin /\ UNCHANGED <<selectVars, planVars, watchVars>>
    \/ StorePayloadBeginFails /\ UNCHANGED <<selectVars, planVars, watchVars>>
    \/ StorePayloadGroup /\ UNCHANGED <<selectVars, planVars, watchVars>>
    \/ StorePayloadGroupFails /\ UNCHANGED <<selectVars, planVars, watchVars>>
    \/ StorePayloadFinish /\ UNCHANGED <<selectVars, planVars, watchVars>>
    \/ GetStats /\ UNCHANGED <<selectVars, planVars, watchVars>>
    \/ GetStatsFails /\ UNCHANGED <<selectVars, planVars, watchVars>>

SpecPayload == InitPayload /\ [][NextPayload]_vars

----------------------------------------------------------------------------
(* The download loop: download_torrent, write_torrent, transmission-remote *)

\* A Content-Disposition value is a sequence of these pieces of text
Quote    == "\""
Filename == "filename="

\* The header values of the responses of the model
HeaderTexts ==
    {<<"attachment; ", Filename, Quote, "a-", "1", ".torrent", Quote>>,
     <<Filename, Quote, "b", ".torrent", Quote>>,
     <<Filename, Quote, Quote, "; ", Filename, Quote, "b", ".torrent", Quote>>,
     <<"attachment">>,
     <<Filename, Quote, Quote>>,
     <<Filename, "b", ".torrent">>,
     <<Filename, Quote, "b", ".torrent">>}

\* headers().get("Content-disposition"): None, or the bytes of the value, which
\* are valid UTF-8 or not
Headers ==
    {<<>>} \cup {<<[utf8 |-> FALSE, text |-> <<>>]>>}
           \cup {<<[utf8 |-> TRUE, text |-> t]>> : t \in HeaderTexts}

\* The responses of the download endpoint: a status and the header
Responses ==
    [success : {TRUE}, header : Headers] \cup [success : {FALSE}, header : {<<>>}]

\* The position of the first quote of text at or after i, 0 if there is none
RECURSIVE NextQuote(_, _)
NextQuote(text, i) ==
    IF i > Len(text) THEN 0
    ELSE IF text[i] = Quote THEN i
    ELSE NextQuote(text, i + 1)

\* Whether filename="([^"]+)" matches at position i of text
MatchesAt(text, i) ==
    /\ i + 2 <= Len(text)
    /\ text[i] = Filename
    /\ text[i + 1] = Quote
    /\ text[i + 2] # Quote
    /\ NextQuote(text, i + 2) # 0

\* Regex::captures of filename="([^"]+)", group 1 of the leftmost match: <<>> or <<name>>
RECURSIVE CaptureFilename(_, _)
CaptureFilename(text, i) ==
    IF i > Len(text) THEN <<>>
    ELSE IF MatchesAt(text, i)
         THEN <<SubSeq(text, i + 2, NextQuote(text, i + 2) - 1)>>
         ELSE CaptureFilename(text, i + 1)

\* CaptureFilename of a write_torrent that falls back to a default name
CaptureOrDefault(header) ==
    IF header = <<>> \/ ~header[1].utf8 \/ CaptureFilename(header[1].text, 1) = <<>>
    THEN <<<<"download", ".torrent">>>>
    ELSE CaptureFilename(header[1].text, 1)

\* Lines 699-716 of write_torrent: the file name of a response, <<>> for the errors
ExtractFilename(header) ==
    IF header = <<>> THEN <<>>
    ELSE IF ~header[1].utf8 THEN <<>>
    ELSE CaptureFilename(header[1].text, 1)

\* The file of torrent_dir under name n, as a set of at most one file
FilesNamed(d, n) == {f \in d : f.name = n}

\* File::create: the file exists afterwards and is empty
CreateFile(d, n) == (d \ FilesNamed(d, n)) \cup {[name |-> n, content |-> "empty"]}

\* What the file holds after copy() wrote all or a part of the body
WriteFile(d, n, c) == (d \ FilesNamed(d, n)) \cup {[name |-> n, content |-> c]}

\* remove_file
RemoveFile(d, n) == d \ FilesNamed(d, n)

\* The body of a response, named after the usetoken of its request
BodyOf(req) == IF req.usetoken = 1 THEN "freeload body" ELSE "plain body"

\* request_torrent_download: the usetoken the request carries
UseToken(fl) == IF fl THEN 1 ELSE 0

\* The locals and arguments of the selection, which the download loop leaves alone
selectionVars == <<num_torrents, freeload_only, result, probe_i, probes>>

\* The locals of the download loop, which the selection leaves alone
loopVars == <<idx, use_fl, reqs, resp, path, dir, dir0, sub>>

\* .into_iter().take(n).collect()
Take(s, n) == SubSeq(s, 1, IF n < Len(s) THEN n ELSE Len(s))

\* Line 479: the first num_torrents candidates
TakeFirst ==
    /\ wpc = "select"
    /\ ~freeload_only
    /\ queue' = Take(queue, num_torrents)
    /\ wpc' = "next"
    /\ UNCHANGED <<selectionVars, loopVars, werr, called, slept>>

\* ProbeOn of a loop that stops one accepted torrent late
ProbeOnInclusive == Len(result) <= num_torrents /\ probe_i < Len(queue)

\* ProbeOn of a loop that walks the whole of ts whatever it has accepted
ProbeOnAll == probe_i < Len(queue)

\* The condition of the while loop of filter_freeload_torrents (ts is queue, max_num
\* is num_torrents)
ProbeOn == Len(result) < num_torrents /\ probe_i < Len(queue)

\* One iteration of the while loop: the request for ts[i], the sleep, the answer
Probe ==
    /\ wpc = "select"
    /\ freeload_only
    /\ ProbeOn
    /\ called' = TRUE
    /\ \/ \* send() fails: the ? returns before the sleep
          /\ slept' = FALSE
          /\ wpc' = "err"
          /\ werr' = "transport"
          /\ UNCHANGED <<result, probe_i, probes>>
       \/ \* the body is no ApiResponseTorrent: the ? returns after the sleep
          /\ slept' = TRUE
          /\ wpc' = "err"
          /\ werr' = "json"
          /\ UNCHANGED <<result, probe_i, probes>>
       \/ \E is_freeload \in BOOLEAN :
          /\ slept' = TRUE
          /\ probes' = Append(probes, <<queue[probe_i + 1], is_freeload>>)
          /\ result' = IF is_freeload THEN Append(result, queue[probe_i + 1]) ELSE result
          /\ probe_i' = probe_i + 1
          /\ UNCHANGED <<wpc, werr>>
    /\ UNCHANGED <<num_torrents, freeload_only, queue, loopVars>>

\* The while loop is over: Ok(result) becomes torrents, the locals are dropped
FinishProbe ==
    /\ wpc = "select"
    /\ freeload_only
    /\ ~ProbeOn
    /\ queue' = result
    /\ result' = <<>>
    /\ probe_i' = 0
    /\ probes' = <<>>
    /\ wpc' = "next"
    /\ UNCHANGED <<num_torrents, freeload_only, loopVars, werr, called, slept>>

\* The for loop takes the next torrent and download_torrent sends its first request
RequestFirst ==
    /\ wpc = "next"
    /\ idx <= Len(queue)
    /\ dir0' = dir
    /\ path' = <<>>
    /\ sub' = "none"
    /\ called' = TRUE
    /\ slept' = FALSE
    /\ \/ \* send() fails
          /\ reqs' = <<[usetoken |-> UseToken(use_fl), outcome |-> "transport"]>>
          /\ resp' = <<>>
          /\ wpc' = "err"
          /\ werr' = "transport"
       \/ \E r \in Responses :
          /\ reqs' = <<[usetoken |-> UseToken(use_fl),
                        outcome |-> IF r.success THEN "success" ELSE "status"]>>
          /\ IF r.success
             THEN resp' = <<r>> /\ wpc' = "write"
             ELSE resp' = <<>> /\ wpc' = "fallback"
          /\ werr' = "none"
    /\ UNCHANGED <<selectionVars, queue, idx, use_fl, dir>>

\* FallbackSleep of a download_torrent that repeats the request at once
FallbackWithoutSleep ==
    /\ wpc = "fallback"
    /\ wpc' = "retry"
    /\ UNCHANGED <<selectionVars, queue, loopVars, werr, called, slept>>

\* Line 661: the first response is no success, sleep before the second request
FallbackSleep ==
    /\ wpc = "fallback"
    /\ slept' = TRUE
    /\ wpc' = "retry"
    /\ UNCHANGED <<selectionVars, queue, loopVars, werr, called>>

\* RequestFallback of a download_torrent that repeats the request as it was
RequestFallbackSameToken ==
    /\ wpc = "retry"
    /\ \/ /\ reqs' = Append(reqs, [usetoken |-> UseToken(use_fl), outcome |-> "transport"])
          /\ resp' = <<>>
          /\ wpc' = "err"
          /\ werr' = "transport"
       \/ \E r \in Responses :
          /\ reqs' = Append(reqs, [usetoken |-> UseToken(use_fl),
                                   outcome |-> IF r.success THEN "success" ELSE "status"])
          /\ IF r.success
             THEN resp' = <<r>> /\ wpc' = "write" /\ werr' = "none"
             ELSE resp' = <<>> /\ wpc' = "err" /\ werr' = "status"
    /\ called' = TRUE
    /\ slept' = FALSE
    /\ UNCHANGED <<selectionVars, queue, idx, use_fl, path, dir, dir0, sub>>

\* Lines 662-671: the request without the token
RequestFallback ==
    /\ wpc = "retry"
    /\ \/ \* send() fails
          /\ reqs' = Append(reqs, [usetoken |-> UseToken(FALSE), outcome |-> "transport"])
          /\ resp' = <<>>
          /\ wpc' = "err"
          /\ werr' = "transport"
       \/ \E r \in Responses :
          /\ reqs' = Append(reqs, [usetoken |-> UseToken(FALSE),
                                   outcome |-> IF r.success THEN "success" ELSE "status"])
          /\ IF r.success
             THEN resp' = <<r>> /\ wpc' = "write" /\ werr' = "none"
             ELSE resp' = <<>> /\ wpc' = "err" /\ werr' = "status"
    /\ called' = TRUE
    /\ slept' = FALSE
    /\ UNCHANGED <<selectionVars, queue, idx, use_fl, path, dir, dir0, sub>>

\* write_torrent up to File::create: the file name from the header, then the file
WriteCreate ==
    /\ wpc = "write"
    /\ LET name == ExtractFilename(resp[1].header)
       IN  IF name = <<>>
           THEN /\ wpc' = "err"
                /\ werr' = "header"
                /\ UNCHANGED <<path, dir>>
           ELSE \/ \* File::create fails
                   /\ wpc' = "err"
                   /\ werr' = "create"
                   /\ UNCHANGED <<path, dir>>
                \/ /\ wpc' = "body"
                   /\ werr' = "none"
                   /\ path' = name
                   /\ dir' = CreateFile(dir, name[1])
    /\ UNCHANGED <<selectionVars, queue, idx, use_fl, reqs, resp, dir0, sub, called, slept>>

\* write_torrent from response.bytes() on: the body is read, then copied to the file
WriteBody ==
    /\ wpc = "body"
    /\ \/ \* the transfer of the body is interrupted
          /\ wpc' = "err"
          /\ werr' = "body"
          /\ UNCHANGED dir
       \/ \* copy() fails after a part of the body
          /\ wpc' = "err"
          /\ werr' = "copy"
          /\ dir' = WriteFile(dir, path[1], "partial")
       \/ \* Ok(path)
          /\ wpc' = "submit"
          /\ werr' = "none"
          /\ dir' = WriteFile(dir, path[1], BodyOf(reqs[Len(reqs)]))
    /\ UNCHANGED <<selectionVars, queue, idx, use_fl, reqs, resp, path, dir0, sub, called, slept>>

\* Lines 484-501: sleep, run transmission-remote, remove the file if it could not be run
Submit ==
    /\ wpc = "submit"
    /\ slept' = TRUE
    /\ \/ \* cmd.output() is Err and remove_file succeeds
          /\ sub' = "not run"
          /\ dir' = RemoveFile(dir, path[1])
          /\ wpc' = "err"
          /\ werr' = "submission"
          /\ UNCHANGED idx
       \/ \* cmd.output() is Err and remove_file fails
          /\ sub' = "not run"
          /\ wpc' = "err"
          /\ werr' = "remove"
          /\ UNCHANGED <<dir, idx>>
       \/ \* cmd.output() is Ok: transmission-remote ran, whatever its exit status
          /\ sub' \in {"accepted", "rejected"}
          /\ wpc' = "next"
          /\ werr' = "none"
          /\ idx' = idx + 1
          /\ UNCHANGED dir
    /\ UNCHANGED <<selectionVars, queue, use_fl, reqs, resp, path, dir0, called>>

\* The for loop is over: Ok(torrents)
FinishWatch ==
    /\ wpc = "next"
    /\ idx > Len(queue)
    /\ wpc' = "ok"
    /\ UNCHANGED <<selectionVars, queue, loopVars, werr, called, slept>>

\* The candidates line 476 can find in torrents: up to MaxQueue different torrents
Queues ==
    {q \in SeqsUpTo(1..MaxQueue, MaxQueue) : \A i, j \in 1..Len(q) : i # j => q[i] # q[j]}

\* ReadCandidates of a Watch that takes its candidates out of the pool
ReadCandidatesDraining ==
    /\ wpc = "pool"
    /\ \E q \in {c \in Queues : Range(c) \subseteq {r.id : r \in torrents}} :
        /\ queue' = q
        /\ torrents' = {r \in torrents : r.id \notin Range(q)}
    /\ wpc' = "select"
    /\ UNCHANGED fetches
    /\ UNCHANGED <<selectionVars, loopVars, werr, called, slept>>

\* Lines 458 to 474: get_pool_torrents reads the pool through a read-only
\* connection; the two filters, the shuffle and the order by weight leave some of
\* its torrents, in some order (SpecPlan has the detail)
ReadCandidates ==
    /\ wpc = "pool"
    /\ \E q \in {c \in Queues : Range(c) \subseteq {r.id : r \in torrents}} :
        queue' = q
    /\ wpc' = "select"
    /\ UNCHANGED <<torrents, fetches>>
    /\ UNCHANGED <<selectionVars, loopVars, werr, called, slept>>

\* The pool, the library or torrent_dir cannot be read: the ? of line 460 returns
\* the error
ReadCandidatesFails ==
    /\ wpc = "pool"
    /\ wpc' = "err"
    /\ werr' = "read"
    /\ UNCHANGED <<torrents, fetches>>
    /\ UNCHANGED <<selectionVars, queue, loopVars, called, slept>>

\* The pool a Fetch of an artist left: one Release for each of MaxQueue ids
WatchPool ==
    {[id |-> i, album_name |-> "Abbey Road", artist_names |-> "The Beatles",
      year |-> 1969, release_type |-> 1, media |-> "CD", format |-> "MP3",
      encoding |-> "V0 (VBR)", file_count |-> 12, weight |-> 10, size_bytes |-> 1000,
      created_at |-> 0] : i \in 1..MaxQueue}

\* The Store when a Watch begins
WatchStore ==
    /\ torrents = WatchPool
    /\ fetches = {[id |-> 7, type |-> 0, name |-> "The Beatles", created_at |-> 0]}
    /\ clock = 0
    /\ pc = "idle"
    /\ cur = NoCall
    /\ todo = 0
    /\ stored_count = 0
    /\ torrent = <<>>
    /\ survivors = 0

\* add_new_torrents_for_download is called: torrent_dir holds no file or one from
\* an earlier run
WatchInit ==
    /\ wpc = "pool"
    /\ num_torrents \in 0..MaxQueue
    /\ freeload_only \in BOOLEAN
    /\ queue = <<>>
    /\ result = <<>>
    /\ probe_i = 0
    /\ probes = <<>>
    /\ called = FALSE
    /\ idx = 1
    /\ use_fl \in BOOLEAN
    /\ reqs = <<>>
    /\ resp = <<>>
    /\ path = <<>>
    /\ dir \in {{}, {[name |-> <<"b", ".torrent">>, content |-> "old"]}}
    /\ dir0 = dir
    /\ sub = "none"
    /\ werr = "none"
    /\ slept = FALSE

InitWatch == WatchStore /\ SelectIdle /\ PlanIdle /\ WatchInit /\ PayloadIdle

NextWatch ==
    \/ ReadCandidates /\ UNCHANGED <<callVars, selectVars, planVars, payloadVars>>
    \/ ReadCandidatesFails /\ UNCHANGED <<callVars, selectVars, planVars, payloadVars>>
    \/ TakeFirst /\ UNCHANGED <<fetchVars, selectVars, planVars, payloadVars>>
    \/ Probe /\ UNCHANGED <<fetchVars, selectVars, planVars, payloadVars>>
    \/ FinishProbe /\ UNCHANGED <<fetchVars, selectVars, planVars, payloadVars>>
    \/ RequestFirst /\ UNCHANGED <<fetchVars, selectVars, planVars, payloadVars>>
    \/ FallbackSleep /\ UNCHANGED <<fetchVars, selectVars, planVars, payloadVars>>
    \/ RequestFallback /\ UNCHANGED <<fetchVars, selectVars, planVars, payloadVars>>
    \/ WriteCreate /\ UNCHANGED <<fetchVars, selectVars, planVars, payloadVars>>
    \/ WriteBody /\ UNCHANGED <<fetchVars, selectVars, planVars, payloadVars>>
    \/ Submit /\ UNCHANGED <<fetchVars, selectVars, planVars, payloadVars>>
    \/ FinishWatch /\ UNCHANGED <<fetchVars, selectVars, planVars, payloadVars>>

SpecWatch == InitWatch /\ [][NextWatch]_vars

----------------------------------------------------------------------------
(* The selection rule as the specification states it *)

\* The filter of section 4.2
IsQualifying(t) ==
    /\ t.release_type = 1
    /\ t.format = "MP3"
    /\ t.media \in {"CD", "WEB"}
    /\ t.encoding \in {"V0 (VBR)", "320"}

\* The rank of section 4.2: (CD,V0)=0 < (WEB,V0)=1 < (CD,320)=2 < (WEB,320)=3
RankOf(t) ==
    (IF t.encoding = "V0 (VBR)" THEN 0 ELSE 2) + (IF t.media = "CD" THEN 0 ELSE 1)

\* The qualifying candidates of g, and those of minimum rank among them
QualifyingIn(g) == {i \in 1..Len(g) : IsQualifying(g[i])}
BestIn(g) == {i \in QualifyingIn(g) : \A j \in QualifyingIn(g) : RankOf(g[i]) <= RankOf(g[j])}

\* The columns of a row that come from the Release
SameRelease(row, t) == row = TorrentRow(t, row.created_at)

----------------------------------------------------------------------------
(* Claims on the variant selection (SpecSelect) *)

\* C1: for a group with at least one qualifying candidate the selection picks one
\* torrent of the group, a qualifying one, and its (media, encoding) rank is the
\* minimum over the qualifying candidates.
C1_SelectsMinimumRank ==
    (selected /\ QualifyingIn(group) # {}) =>
        /\ picked \in QualifyingIn(group)
        /\ \A j \in QualifyingIn(group) : RankOf(group[picked]) <= RankOf(group[j])

\* The example of the specification: (WEB,320), (CD,V0), (WEB,V0) selects (CD,V0)
C1_Witness ==
    /\ selected
    /\ Len(group) = 3
    /\ \A i \in 1..3 : IsQualifying(group[i])
    /\ <<group[1].media, group[1].encoding>> = <<"WEB", "320">>
    /\ <<group[2].media, group[2].encoding>> = <<"CD", "V0 (VBR)">>
    /\ <<group[3].media, group[3].encoding>> = <<"WEB", "V0 (VBR)">>
    /\ picked = 2

\* C2: when several qualifying candidates share the minimum rank, the one selected
\* is the first of them in input order.
C2_FirstOfTiesWins ==
    (selected /\ Cardinality(BestIn(group)) >= 2) =>
        /\ picked \in BestIn(group)
        /\ \A i \in BestIn(group) : picked <= i

\* Two candidates of minimum rank behind one of larger rank; the earlier of the two
\* is selected
C2_Witness ==
    /\ selected
    /\ Len(group) = 3
    /\ BestIn(group) = {2, 3}
    /\ IsQualifying(group[1])
    /\ picked = 2

----------------------------------------------------------------------------
(* Claims on store_data (Spec) *)

\* A step of the for loop: one group is visited
VisitsGroup == pc = "loop" /\ todo > 0 /\ clock' = clock

\* C3: a group with no qualifying candidate yields no torrent, nothing is written
\* for it and it is no error: the loop goes on with the groups that remain, and a
\* loop that has visited every group returns Ok.
C3_NoSurvivorIsNoError ==
    [][/\ (VisitsGroup /\ survivors' = 0) =>
            /\ torrent' = <<>>
            /\ torrents' = torrents
            /\ stored_count' = stored_count
            /\ pc' = "loop"
            /\ todo' = todo - 1
       /\ (pc = "loop" /\ todo = 0 /\ clock' = clock) => pc' = "done"]_vars

\* The second group of a payload had no survivor: the count is still that of the
\* first group and the loop is about to return Ok
C3_Witness ==
    /\ pc = "loop"
    /\ todo = 0
    /\ survivors = 0
    /\ torrent = <<>>
    /\ stored_count = 1

\* C4: the table holds at most one row per id, and every row passes the filter of
\* the selection.
C4_OneRowPerIdAllQualifying ==
    /\ \A r1 \in torrents : \A r2 \in torrents : r1.id = r2.id => r1 = r2
    /\ \A r \in torrents : IsQualifying(r)

\* After store_data calls for an artist and for a collage, one second apart, both
\* ids are stored
C4_Witness ==
    /\ pc = "done"
    /\ Cardinality(fetches) = 2
    /\ {r.id : r \in torrents} = TorrentIds
    /\ {r.created_at : r \in torrents} = {0, 1}

\* C5 (as claimed): upserting a Release whose row is already stored leaves the row
\* as it was, every column included, and counts one more write.
C5_UpsertTwiceLeavesRow ==
    [][(/\ VisitsGroup
        /\ pc' = "loop"
        /\ torrent' # <<>>
        /\ \E r \in torrents : SameRelease(r, torrent'[1])) =>
            /\ torrents' = torrents
            /\ stored_count' = stored_count + 1]_vars

\* Whether the table fetches holds a record of the source
Recorded(table, kind, id) == \E r \in table : r.id = id /\ r.type = FetchType(kind)

\* A step in which store_data is called and its INSERT into fetches succeeds
BeginsCall == pc # "loop" /\ clock' = clock /\ pc' \in {"loop", "done", "panicked"}

\* C16: a fetch record, once created, is never changed or removed, there is one
\* record per (id, type) at most, and a call for a source leaves the source
\* recorded: a repeated call with another name keeps the record as it was, and an
\* artist and a collage of the same id have a record each.
C16_FetchRecordWrittenOnce ==
    [][/\ fetches \subseteq fetches'
       /\ \A r1 \in fetches' : \A r2 \in fetches' :
              (r1.id = r2.id /\ r1.type = r2.type) => r1 = r2
       /\ (BeginsCall /\ pc' = "loop") => Recorded(fetches', cur'.kind, cur'.id)]_vars

\* An artist and a collage of id 7 were fetched in second 0; the artist is fetched
\* again in second 1 under another name and its record still has the old one
C16_Witness ==
    /\ clock = 1
    /\ pc = "loop"
    /\ cur.kind = "Artist"
    /\ cur.name = "The&#32;Beatles"
    /\ fetches = {[id |-> 7, type |-> 0, name |-> "The Beatles", created_at |-> 0],
                  [id |-> 7, type |-> 1, name |-> "The Beatles", created_at |-> 0]}

\* C17: a call for a source that is recorded already is no early return: it walks
\* the groups of the payload as a first call does, and every group with a selected
\* torrent has its row written.
C17_RecordedSourceIsProcessed ==
    [][/\ (BeginsCall /\ fetches' = fetches) => pc' \in {"loop", "panicked"}
       /\ (pc' = "done" /\ clock' = clock) => (pc = "loop" /\ todo = 0)
       /\ (VisitsGroup /\ pc' = "loop" /\ Recorded(fetches, cur.kind, cur.id)) =>
              /\ todo' = todo - 1
              /\ torrent' # <<>> =>
                     (/\ \E r \in torrents' : SameRelease(r, torrent'[1])
                      /\ stored_count' = stored_count + 1)]_vars

\* The source was recorded in second 0; a call of second 1 has written a row
C17_Witness ==
    /\ clock = 1
    /\ pc = "loop"
    /\ \E r \in fetches :
           r.id = cur.id /\ r.type = FetchType(cur.kind) /\ r.created_at = 0
    /\ torrent # <<>>
    /\ TorrentRow(torrent[1], 1) \in torrents
    /\ stored_count = 1

\* C20: when the write of the row of a group fails the call returns the error there:
\* the rows written before, those of the earlier groups of the call included, and
\* the fetch record stay as they are, and no row is written until store_data is
\* called again.
C20_FailedWriteKeepsEarlierRows ==
    [][/\ (pc = "loop" /\ pc' = "failed") =>
              /\ torrents' = torrents
              /\ fetches' = fetches
              /\ Recorded(fetches', cur.kind, cur.id)
              /\ stored_count' = stored_count
       /\ pc = "failed" => torrents' = torrents]_vars

\* The write for the second group of a first call failed: the row of the first
\* group and the fetch record are stored
C20_Witness ==
    /\ pc = "failed"
    /\ stored_count = 1
    /\ Cardinality(torrents) = 1
    /\ Cardinality(fetches) = 1
    /\ \A r \in fetches : r.created_at = clock
    /\ \A r \in torrents : r.created_at = clock

\* A step of the for loop that upserts the Release it selected
Upserts == VisitsGroup /\ pc' = "loop" /\ torrent' # <<>>

\* C26: an upsert leaves exactly one row of the id of its Release, equal to the
\* Release in every field, weight included, whether the id was stored before or
\* not, and leaves every other row as it was; no other step changes the table, so
\* no stored id is ever removed.
C26_RefetchReplacesRowInFull ==
    [][/\ {r.id : r \in torrents} \subseteq {r.id : r \in torrents'}
       /\ Upserts =>
              /\ \E r \in torrents' : r.id = torrent'[1].id
              /\ \A r \in torrents' : r.id = torrent'[1].id => SameRelease(r, torrent'[1])
              /\ {r \in torrents : r.id # torrent'[1].id}
                     = {r \in torrents' : r.id # torrent'[1].id}
       /\ ~Upserts => torrents' = torrents]_vars

\* A Fetch of second 1 with weight 20 has upserted a Release of an id a Fetch of
\* second 0 could store with weight 10; the row of the other id is the one of
\* second 0
C26_Witness ==
    /\ clock = 1
    /\ pc = "loop"
    /\ cur.weight = 20
    /\ torrent # <<>>
    /\ torrent[1].id = 1
    /\ TorrentRow(torrent[1], 1) \in torrents
    /\ \E r \in torrents : r.id = 2 /\ r.weight = 10 /\ r.created_at = 0
    /\ \A r \in fetches : r.created_at = 0

----------------------------------------------------------------------------
(* Claims on the download loop (SpecWatch) *)

\* download_torrent has returned for the item of this iteration and
\* transmission-remote was not yet run
DownloadDone   == wpc = "submit"
DownloadFailed == wpc = "err" /\ sub = "none"
DownloadEnded  == DownloadDone \/ DownloadFailed

\* The first request of the item got a response that is no success, the second a
\* success
FirstFailedSecondSucceeded ==
    /\ Len(reqs) = 2
    /\ reqs[1].outcome = "status"
    /\ reqs[2].outcome = "success"

\* Every request of the item failed, by its status or in transport
AllRequestsFailed ==
    /\ reqs # <<>>
    /\ \A k \in 1..Len(reqs) : reqs[k].outcome # "success"

\* The complete body of the plain response is in the file write_torrent named
PlainFileWritten ==
    /\ path # <<>>
    /\ [name |-> path[1], content |-> "plain body"] \in dir

\* Whether a header value holds filename="..." with a name of one character or more
HasQuotedFilename(header) ==
    /\ header # <<>>
    /\ header[1].utf8
    /\ LET text == header[1].text
       IN  \E i \in 1..Len(text) : \E j \in 1..Len(text) :
               /\ text[i] = Filename
               /\ text[i + 1] = Quote
               /\ j > i + 2
               /\ text[j] = Quote
               /\ \A k \in (i + 2)..(j - 1) : text[k] # Quote

\* C6 (as claimed): in freeload mode, a failed freeload request and a successful
\* plain request end in Done with the file of the plain response written; two failed
\* requests end in Failed with no file for the item.
C6_FallbackAlwaysEndsDone ==
    /\ (use_fl /\ FirstFailedSecondSucceeded /\ DownloadEnded) =>
           (DownloadDone /\ PlainFileWritten)
    /\ (use_fl /\ AllRequestsFailed /\ DownloadEnded) =>
           (DownloadFailed /\ dir = dir0)

\* C6 (amended): in freeload mode, when the freeload request fails by its status the
\* second request is a plain one, and when that succeeds the machine ends in Done
\* with the file of the plain response written, or in Failed with an error of the
\* Write step; two failed requests end in Failed with no file created for the item.
C6_FallbackEndsDoneOrWriteError ==
    /\ (use_fl /\ Len(reqs) = 2) => (reqs[1].usetoken = 1 /\ reqs[2].usetoken = 0)
    /\ (use_fl /\ FirstFailedSecondSucceeded /\ DownloadEnded) =>
           \/ DownloadDone /\ PlainFileWritten
           \/ DownloadFailed /\ werr \in {"header", "create", "body", "copy"}
    /\ (use_fl /\ AllRequestsFailed /\ DownloadEnded) =>
           (DownloadFailed /\ werr \in {"status", "transport"} /\ dir = dir0 /\ path = <<>>)

\* The freeload request was refused, the plain one answered, the file is written
C6_Witness ==
    /\ use_fl
    /\ FirstFailedSecondSucceeded
    /\ reqs[1].usetoken = 1
    /\ DownloadDone
    /\ PlainFileWritten

\* C7 (as claimed): with the freeload flag off one download request is issued for
\* the item, a plain one, and it is never repeated.
C7_PlainRequestNeverRetried ==
    ~use_fl => (Len(reqs) <= 1 /\ \A k \in 1..Len(reqs) : reqs[k].usetoken = 0)

\* C8 (as claimed): when transmission-remote cannot be run or rejects the file, the
\* call returns the error and the file is gone from torrent_dir (the case of a
\* remove_file that itself fails is left aside).
C8_FailedSubmissionRemovesFile ==
    (sub \in {"not run", "rejected"} /\ werr # "remove") =>
        /\ wpc = "err"
        /\ werr = "submission"
        /\ FilesNamed(dir, path[1]) = {}

\* C9 (as claimed): when the transfer of the body is interrupted after the request
\* succeeded, no file, empty or partial, is under the extracted name.
C9_InterruptedBodyLeavesNoFile ==
    (wpc = "err" /\ werr \in {"body", "copy"}) => FilesNamed(dir, path[1]) = {}

\* C10: when the response handed to write_torrent has no content-disposition header,
\* or one without filename="...", write_torrent returns an error and creates no file.
C10_NoFilenameNoFile ==
    [][(wpc = "write" /\ ~HasQuotedFilename(resp[1].header)) =>
           /\ wpc' = "err"
           /\ werr' = "header"
           /\ dir' = dir
           /\ path' = <<>>]_vars

\* A header that is present and names no file: filename=""
C10_Witness ==
    /\ wpc = "err"
    /\ werr = "header"
    /\ resp # <<>>
    /\ resp[1].header = <<[utf8 |-> TRUE, text |-> <<Filename, Quote, Quote>>]>>
    /\ dir = dir0

----------------------------------------------------------------------------
(* Claims on the candidates of a Watch (SpecPlan) *)

\* Whether b holds the elements of a, each as often as a does
IsPermutation(a, b) ==
    /\ Len(a) = Len(b)
    /\ \E p \in Permutations(1..Len(a)) : \A k \in 1..Len(a) : b[k] = a[p[k]]

\* The place of torrent t in s
PositionIn(s, t) == CHOOSE k \in 1..Len(s) : s[k].id = t.id

\* C12: the concatenated sequence is a permutation of the pool left by the two
\* filters, and every torrent in it comes before every torrent of smaller weight.
C12_PermutationByWeightDescending ==
    [][(ppc = "group" /\ ppc' = "planned") =>
           /\ IsPermutation(ts, ts')
           /\ \A a \in 1..Len(ts') : \A b \in 1..Len(ts') :
                  ts'[a].weight > ts'[b].weight => a < b]_vars

\* The pool held the ids 2, 12 and 12345 with the weights 10, 20 and 10: the torrent
\* of weight 20 comes first
C12_Witness ==
    /\ ppc = "planned"
    /\ [k \in 1..Len(ts) |-> ts[k].id] = <<12, 12345, 2>>
    /\ [k \in 1..Len(ts) |-> ts[k].weight] = <<20, 10, 10>>

\* C13 (as claimed): for two torrents of one weight in the pool left by the two
\* filters, either can come before the other in the concatenated sequence.
C13_EqualWeightsBothOrders ==
    ppc = "group" =>
        \A a \in 1..Len(ts) : \A b \in 1..Len(ts) :
            (a # b /\ ts[a].weight = ts[b].weight) =>
                \E o \in Concatenations(ts) : PositionIn(o, ts[a]) < PositionIn(o, ts[b])

\* The letters of the texts of the model that are not ASCII
OtherLetters ==
    {"U+7121", "U+7F6A", "U+690E", "U+540D", "U+6797", "U+6A8E", "U+98A8", "U+4E45",
     "U+77F3", "U+8B72"}

\* A letter or a digit
IsAlphanumeric(c) == is_ascii_alphanumeric(c) \/ c \in OtherLetters

\* The normalization of section 4.4: the characters that are no letters and no
\* digits are stripped, the rest is in lower case
Normalized(s) == to_lowercase(SelectSeq(s, IsAlphanumeric))

\* Whether album a of the library is Release t, artist and album compared normalized
MatchesAlbum(t, a) ==
    /\ Normalized(a.artists) = Normalized(t.artist_names)
    /\ Normalized(a.name) = Normalized(t.album_name)

\* C14 (as claimed): the library filter drops a torrent if and only if one album of
\* the library equals it on artist and on album after normalization, and keeps
\* the torrents that are left in their order.
C14_ExcludedIffNormalizedMatch ==
    [][(ppc = "library" /\ ppc' = "dir") =>
           LET retained(t) == ~\E a \in plex_albums' : MatchesAlbum(t, a)
           IN  ts' = SelectSeq(ts, retained)]_vars

\* Whether a stem ends in a maximal run of digits that is a numeral of id
EndsInDigitsOf(stem, id) ==
    \E k \in 1..Len(stem) :
        /\ \A j \in (Len(stem) - k + 1)..Len(stem) : stem[j] \in Range(Digits)
        /\ k < Len(stem) => stem[Len(stem) - k] \notin Range(Digits)
        /\ StripZeros(SubSeq(stem, Len(stem) - k + 1, Len(stem))) = Numeral(id)

\* C15: the on-disk filter drops a torrent if and only if the directory holds a file
\* whose stem ends in a maximal run of digits that is a numeral of the id of the
\* torrent; a file whose stem ends in no digit drops nothing.
C15_ExcludedIffTrailingId ==
    [][(ppc = "dir" /\ ppc' = "group") =>
           LET retained(t) ==
                   ~\E e \in entries' : e.is_file /\ EndsInDigitsOf(file_stem(e.name), t.id)
           IN  ts' = SelectSeq(ts, retained)]_vars

\* The directory holds foo-12345.torrent and foo.torrent: the torrents 2 and 12 are
\* left, 12345 is not
C15_Witness ==
    /\ ppc = "group"
    /\ {e.name : e \in entries} =
           {<<"f", "o", "o", "-", "1", "2", "3", "4", "5">> \o DotTorrent,
            <<"f", "o", "o">> \o DotTorrent}
    /\ [k \in 1..Len(ts) |-> ts[k].id] = <<2, 12>>

----------------------------------------------------------------------------
(* Claims on the selection and on the whole of the loop (SpecWatch) *)

\* C11: the selection returns at most num_torrents torrents, in both modes; in
\* freeload-only mode every torrent returned is one whose probe answered true.
C11_AtMostNAllFreeload ==
    [][(wpc = "select" /\ wpc' = "next") =>
           /\ Len(queue') <= num_torrents
           /\ Range(queue') \subseteq Range(queue)
           /\ freeload_only => \A k \in 1..Len(queue') : <<queue'[k], TRUE>> \in Range(probes)]_vars

\* Two candidates and num_torrents = 1: the first was no freeload, the second was,
\* and the loop is about to return the second alone
C11_Witness ==
    /\ wpc = "select"
    /\ freeload_only
    /\ num_torrents = 1
    /\ Len(queue) = 2
    /\ probes = <<<<queue[1], FALSE>>, <<queue[2], TRUE>>>>
    /\ result = <<queue[2]>>
    /\ ~ProbeOn

\* A step that sends a request to the tracker API: a probe, the first download
\* request of an item, the second one
SendsRequest ==
    \/ wpc = "select" /\ freeload_only /\ (wpc' = "err" \/ probe_i' # probe_i)
    \/ wpc = "next" /\ wpc' # "ok"
    \/ wpc = "retry"

\* C18: a request to the tracker API that is not the first of the call is sent only
\* after the delay was taken since the request before it, whether that one
\* succeeded or failed.
C18_DelayBetweenApiCalls ==
    [][(SendsRequest /\ called) => slept]_vars

\* After the probes, the second item of the selection needed both of its requests
C18_Witness ==
    /\ freeload_only
    /\ idx = 2
    /\ Len(reqs) = 2
    /\ reqs[1].outcome = "status"
    /\ wpc = "submit"

\* The download or the hand-over of the item of this iteration failed
ItemFailed == wpc = "err" \/ sub \in {"not run", "rejected"}

\* C19 (as claimed): once the download or the submission of an item has failed, no
\* download request and no submission is made any more and the call does not
\* return Ok.
C19_FailureStopsTheLoop ==
    [][ItemFailed => (reqs' = reqs /\ sub' = sub /\ wpc' # "ok")]_vars

----------------------------------------------------------------------------
(* Claims on store_data on a whole payload (SpecPayload) *)

\* A string that is no number: after an optional sign it is empty or holds a
\* character that is no digit
NonNumeric(s) ==
    LET d == IF s # <<>> /\ s[1] \in {"+", "-"} THEN Tail(s) ELSE s
    IN  d = <<>> \/ \E k \in 1..Len(d) : d[k] \notin Range(Digits)

\* The payload is a collage with a Work whose year or release type is no number
HasMalformedWork ==
    /\ payload.kind = "Collage"
    /\ \E k \in 1..Len(payload.torrent_groups) :
        \/ NonNumeric(payload.torrent_groups[k].year)
        \/ NonNumeric(payload.torrent_groups[k].release_type)

\* C21 (as claimed): a collage with a Work whose year or release type is no number
\* makes the normalization fail: store_data neither enters its loop nor returns
\* Ok, and no Release of the payload is stored.
C21_MalformedWorkIsFatal ==
    HasMalformedWork => (pc \notin {"loop", "done"} /\ torrents = {})

\* The names the payload gives the Releases of its k-th group, HTML entities decoded
DecodedAlbum(k) == decode_html_entities(payload.torrent_groups[k].name)
DecodedArtists(k) ==
    IF payload.kind = "Artist" THEN decode_html_entities(payload.name)
    ELSE Join([a \in 1..Len(payload.torrent_groups[k].artists) |->
                  decode_html_entities(payload.torrent_groups[k].artists[a])])

\* C22 (as claimed): for both kinds of payload, the album name and the artist names
\* of every normalized Release are the decoded forms of the names of the payload.
C22_NamesAreDecoded ==
    pc = "loop" =>
        \A k \in 1..Len(groups) :
            LET w == Len(payload.torrent_groups) - Len(groups) + k
            IN  \A i \in 1..Len(groups[k]) :
                    /\ groups[k][i].album_name = DecodedAlbum(w)
                    /\ groups[k][i].artist_names = DecodedArtists(w)

\* The smallest id among the rows of format f: the row of f a scan of the table
\* meets first
FirstSeen(f) ==
    CHOOSE i \in {r.id : r \in {q \in torrents : q.format = f}} :
        \A r \in torrents : r.format = f => i <= r.id

\* The sum of the counts of a histogram
RECURSIVE SumCounts(_)
SumCounts(h) == IF h = <<>> THEN 0 ELSE h[1][2] + SumCounts(Tail(h))

----------------------------------------------------------------------------
(* Claims on the Watch as a whole (SpecWatch) *)

\* C24: no step of a Watch, from the read of the pool to the last hand-over,
\* whether the Watch ends in Ok or in an error, changes the table of Releases or
\* the table of fetch records.
C24_WatchNeverWritesStore ==
    [][torrents' = torrents /\ fetches' = fetches]_vars

\* A Watch that handed a torrent of the pool over and returned Ok
C24_Witness ==
    /\ wpc = "ok"
    /\ queue # <<>>
    /\ sub = "accepted"
    /\ torrents = WatchPool

\* The ids of the probes that answered true, in the order of the probes
Accepted(ps) ==
    LET yes(p) == p[2]
        kept == SelectSeq(ps, yes)
    IN  [k \in 1..Len(kept) |-> kept[k][1]]

\* C25: in freeload-only mode the candidates are probed in their order, each at most
\* once; the result is the probed candidates that answered true, in that order; no
\* candidate is probed once num_torrents are accepted, none at all when
\* num_torrents = 0; and the probing ends only when num_torrents are accepted or
\* every candidate was probed.
C25_ProbedInOrderUntilN ==
    [][(wpc = "select" /\ freeload_only) =>
           /\ Len(probes) <= Len(queue)
           /\ \A k \in 1..Len(probes) : probes[k][1] = queue[k]
           /\ result = Accepted(probes)
           /\ Len(result) <= num_torrents
           /\ (Len(result) = num_torrents /\ probes # <<>>) => probes[Len(probes)][2]
           /\ num_torrents = 0 => probes = <<>>
           /\ wpc' = "next" =>
                  /\ queue' = result
                  /\ Len(result) = num_torrents \/ Len(probes) = Len(queue)]_vars

\* num_torrents = 1 and two candidates: the first answered true, so the second is
\* not probed
C25_Witness ==
    /\ wpc = "select"
    /\ freeload_only
    /\ num_torrents = 1
    /\ Len(queue) = 2
    /\ probes = <<<<queue[1], TRUE>>>>
    /\ result = <<queue[1]>>
    /\ ~ProbeOn

====
